---------------------------- MODULE Spec2Model ----------------------------
(***************************************************************************)
(* Model of color/colored_term.py: the ANSIColor constants and the         *)
(* ColorTerm class (enable, disable, ascii_color_chars, colored_string,    *)
(* build_color_stats, warning, error, info, success).                      *)
(*                                                                         *)
(* A Python str is a sequence of characters.  A character is a one-letter  *)
(* TLA+ string, except the three characters that have no printable         *)
(* letter, which are named: ESC ('\033'), LF ('\n') and BLOCK ('█').       *)
(* An ANSI escape code is therefore a sequence of 4 or 5 characters, and   *)
(* the digit '3' inside a code is the same character as the '3' that       *)
(* ascii_color_chars colours blue.                                         *)
(***************************************************************************)
EXTENDS Integers, Sequences, FiniteSets

ESC == "ESC"
LF == "LF"
BLOCK == "BLOCK"

(***************************************************************************)
(* class ANSIColor                                                         *)
(***************************************************************************)
RED == <<ESC, "[", "3", "1", "m">>
GREEN == <<ESC, "[", "3", "2", "m">>
YELLOW == <<ESC, "[", "3", "3", "m">>
BLUE == <<ESC, "[", "3", "4", "m">>
MAGENTA == <<ESC, "[", "3", "5", "m">>
CYAN == <<ESC, "[", "3", "6", "m">>
RESET == <<ESC, "[", "0", "m">>

\* The attributes of class ANSIColor.
ANSIColors == {RED, GREEN, YELLOW, BLUE, MAGENTA, CYAN, RESET}

(***************************************************************************)
(* Bounds of the model: the inputs the calls are made with.                *)
(***************************************************************************)
\* Longest text over ScanChars handed to ascii_color_chars.
MaxLen == 1
\* Longest text over WrapChars handed to colored_string and the wrappers.
MaxWrapLen == 1
\* Largest count of one colour in a histogram handed to build_color_stats
\* directly (specification SpecStats).
MaxCount == 29

\* One character of every branch of the classification, both characters of
\* the two-character branches, the space and one unclassified character.
ScanChars == {"3", "&", "=", "+", "*", "#", "?", " ", "a"}
WrapChars == {"a", "3"}

RECURSIVE SeqsUpTo(_, _)
SeqsUpTo(S, n) ==
    IF n = 0 THEN {<<>>}
    ELSE LET shorter == SeqsUpTo(S, n - 1)
         IN  shorter \cup {Append(s, c) : s \in shorter, c \in S}

\* Longer texts: every classified character in a row, two spaces, two
\* unclassified characters, and a mix with spaces between.
LongTexts ==
    { <<"3", "&", "=", "+", "*", "#", "?">>,
      <<" ", " ">>,
      <<"a", "b">>,
      <<"a", " ", "3", " ", "3", "&">> }

\* Texts that hold an escape code of their own.
EscTexts == ANSIColors \cup {<<"3">> \o RESET, RED \o <<"a">>}

Texts == SeqsUpTo(ScanChars, MaxLen) \cup LongTexts \cup EscTexts
WrapTexts == SeqsUpTo(WrapChars, MaxWrapLen) \cup {<<"b", "a", "d">>, RESET}

(***************************************************************************)
(* Python float arithmetic (IEEE-754 binary64, round to nearest even), as  *)
(* far as line 112 uses it: int / int, float * int and int(float).         *)
(* A positive float is [m, e]: m its significand bits, most significant    *)
(* first, m[1] = 1, and e the exponent of m[1]; its value is the sum of    *)
(* m[i] * 2^(e - i + 1).  Trailing zero bits of m may be left out.         *)
(* Exact intermediate results are numbers in base 2^LimbBits, one digit    *)
(* (limb) per sequence element, most significant first.                    *)
(***************************************************************************)
\* Bits of the significand of a Python float.
MantBits == 53
\* Bits of one limb of an exact intermediate result.
LimbBits == 13
\* Limbs computed after the binary point of a quotient.
FracLimbs == 7

FloatZero == [m |-> <<>>, e |-> 0]

Zeros(n) == [i \in 1..n |-> 0]

RECURSIVE Pow2(_)
Pow2(k) == IF k = 0 THEN 1 ELSE 2 * Pow2(k - 1)

Base == Pow2(LimbBits)

\* The bits of a number given by its limbs.
LimbsToBits(limbs) ==
    [n \in 1..(LimbBits * Len(limbs)) |->
        (limbs[((n - 1) \div LimbBits) + 1]
            \div Pow2(LimbBits - 1 - ((n - 1) % LimbBits))) % 2]

RECURSIVE BitsToInt(_, _, _)
\* The number the first n bits spell, after acc.
BitsToInt(bits, n, acc) ==
    IF n = 0 THEN acc
    ELSE BitsToInt(Tail(bits), n - 1, 2 * acc + bits[1])

\* The limbs of a number given by its bits (a multiple of LimbBits of them).
BitsToLimbs(bits) ==
    [j \in 1..(Len(bits) \div LimbBits) |->
        BitsToInt(SubSeq(bits, (j - 1) * LimbBits + 1, j * LimbBits), LimbBits, 0)]

\* bits without its leading zeros (bits holds a 1).
DropZeros(bits) ==
    LET lead == CHOOSE i \in 1..Len(bits) :
                    bits[i] = 1 /\ \A j \in 1..(i - 1) : bits[j] = 0
    IN  SubSeq(bits, lead, Len(bits))

\* m + 1, for significand bits m that are not all 1.
Incr(m) ==
    LET z == CHOOSE i \in 1..Len(m) :
                 m[i] = 0 /\ \A j \in (i + 1)..Len(m) : m[j] = 1
    IN  [i \in 1..Len(m) |-> IF i < z THEN m[i] ELSE IF i = z THEN 1 ELSE 0]

\* The float nearest to the exact positive number whose binary expansion is
\* `bits` (bits[1] = 1, of exponent e) followed by something nonzero iff
\* `sticky`: round to nearest, ties to even.
RoundFloat(bits, sticky, e) ==
    LET padded == IF Len(bits) > MantBits THEN bits
                  ELSE bits \o Zeros(MantBits + 1 - Len(bits))
        m == SubSeq(padded, 1, MantBits)
        guard == padded[MantBits + 1]
        rest == sticky \/ \E i \in (MantBits + 2)..Len(padded) : padded[i] = 1
        up == guard = 1 /\ (rest \/ m[MantBits] = 1)
    IN  IF ~up THEN [m |-> m, e |-> e]
        ELSE IF \A i \in 1..MantBits : m[i] = 1
             THEN [m |-> <<1>> \o Zeros(MantBits - 1), e |-> e + 1]
             ELSE [m |-> Incr(m), e |-> e]

RECURSIVE DivLimbs(_, _, _)
\* The first n limbs of r / t after the point (r < t), and the remainder.
DivLimbs(r, t, n) ==
    IF n = 0 THEN [limbs |-> <<>>, rem |-> r]
    ELSE LET rest == DivLimbs((r * Base) % t, t, n - 1)
         IN  [limbs |-> <<(r * Base) \div t>> \o rest.limbs, rem |-> rest.rem]

\* Python's c / t for ints 0 <= c <= t, t > 0: the correctly rounded quotient.
TrueDiv(c, t) ==
    IF c = 0 THEN FloatZero
    ELSE LET d == DivLimbs(c % t, t, FracLimbs)
             bits == LimbsToBits(<<c \div t>> \o d.limbs)
             q == DropZeros(bits)
         IN  RoundFloat(q, d.rem # 0, LimbBits - 1 - (Len(bits) - Len(q)))

RECURSIVE MulLimbs(_, _, _, _)
\* limbs[1..i] * y + carry, as limbs (one more than i).
MulLimbs(limbs, y, i, carry) ==
    IF i = 0 THEN <<carry>>
    ELSE LET p == limbs[i] * y + carry
         IN  MulLimbs(limbs, y, i - 1, p \div Base) \o <<p % Base>>

\* Python's x * y for floats x, y >= 0, y a float of at most LimbBits
\* significant bits: the correctly rounded product.
FloatMul(x, y) ==
    IF x.m = <<>> \/ y.m = <<>> THEN FloatZero
    ELSE LET pad == (LimbBits - (Len(x.m) % LimbBits)) % LimbBits
             xl == BitsToLimbs(Zeros(pad) \o x.m)
             p == DropZeros(LimbsToBits(
                      MulLimbs(xl, BitsToInt(y.m, Len(y.m), 0), Len(xl), 0)))
             \* The product of the significands as integers is worth
             \* 2^(x.e - (Len(x.m) - 1) + y.e - (Len(y.m) - 1)).
             e == (Len(p) - 1) + (x.e - (Len(x.m) - 1)) + (y.e - (Len(y.m) - 1))
         IN  RoundFloat(p, FALSE, e)

\* Python's int(x) for a float 0 <= x < 2^LimbBits: truncation.
FloatToInt(x) ==
    IF x.m = <<>> \/ x.e < 0 THEN 0
    ELSE BitsToInt(x.m \o Zeros(LimbBits), x.e + 1, 0)

\* The int 50 of line 112 as a float: 110010 in binary.
Fifty == [m |-> <<1, 1, 0, 0, 1>>, e |-> 5]

\* int(count / total * 50), line 112, tabulated once for the totals up to
\* 2 * MaxCount (the arithmetic above is the same for every call).
BarTable ==
    [t \in 1..(2 * MaxCount) |->
        [c \in 0..t |-> FloatToInt(FloatMul(TrueDiv(c, t), Fifty))]]

\* Line 112: int(colors_used[color] / total * 50), for total > 0.
BarLen(count, total) ==
    IF total <= 2 * MaxCount THEN BarTable[total][count]
    ELSE FloatToInt(FloatMul(TrueDiv(count, total), Fifty))

(***************************************************************************)
(* class ColorTerm                                                         *)
(***************************************************************************)
VARIABLES
    enabled,       \* self.enabled
    color_stats,   \* self.color_stats
    op,            \* the method called last
    arg_text,      \* its text argument
    arg_color,     \* its color argument (colored_string)
    outcome,       \* "none" (returned None), "returned" or "raised"
    result,        \* the str it returned
    colored_text,  \* the local colored_text when ascii_color_chars left its loop
    colors_used    \* the dict handed to build_color_stats last

vars == <<enabled, color_stats, op, arg_text, arg_color, outcome, result,
          colored_text, colors_used>>

\* Line 109: "\n\n-------------------\nColor distribution in ASCII image:\n"
Header ==
    <<LF, LF, "-", "-", "-", "-", "-", "-", "-", "-", "-", "-", "-", "-", "-",
      "-", "-", "-", "-", "-", "-", LF, "C", "o", "l", "o", "r", " ", "d", "i",
      "s", "t", "r", "i", "b", "u", "t", "i", "o", "n", " ", "i", "n", " ",
      "A", "S", "C", "I", "I", " ", "i", "m", "a", "g", "e", ":", LF>>

\* The dict literal with a key for every attribute of ANSIColor.
NewColorsUsed_with_yellow ==
    << [key |-> BLUE, count |-> 0], [key |-> RED, count |-> 0],
       [key |-> GREEN, count |-> 0], [key |-> YELLOW, count |-> 0],
       [key |-> MAGENTA, count |-> 0], [key |-> CYAN, count |-> 0],
       [key |-> RESET, count |-> 0] >>

\* The dict literal with RED written first.
NewColorsUsed_red_first ==
    << [key |-> RED, count |-> 0], [key |-> BLUE, count |-> 0],
       [key |-> GREEN, count |-> 0], [key |-> MAGENTA, count |-> 0],
       [key |-> CYAN, count |-> 0], [key |-> RESET, count |-> 0] >>

\* Lines 58-65: the dict literal; a dict keeps its keys in insertion order.
NewColorsUsed ==
    << [key |-> BLUE, count |-> 0], [key |-> RED, count |-> 0],
       [key |-> GREEN, count |-> 0], [key |-> MAGENTA, count |-> 0],
       [key |-> CYAN, count |-> 0], [key |-> RESET, count |-> 0] >>

\* colors_used[key] += 1
Increment(d, key) ==
    [i \in 1..Len(d) |->
        IF d[i].key = key THEN [d[i] EXCEPT !.count = @ + 1] ELSE d[i]]

\* The loop's turn with one change: `drop` loses the space instead of passing
\* it through, `count` counts the space under RESET, `star` sends '*' to the
\* CYAN branch.
ScanCharWith(st, char, drop, count, star) ==
    LET wrap(color) ==
            [colored_text |-> st.colored_text \o color \o <<char>> \o RESET,
             colors_used |-> Increment(st.colors_used, color)]
    IN  IF char = "3" THEN wrap(BLUE)
        ELSE IF char = "&" THEN wrap(RED)
        ELSE IF char = "=" THEN wrap(GREEN)
        ELSE IF char = "+" \/ (char = "*" /\ ~star) THEN wrap(MAGENTA)
        ELSE IF char = "#" \/ char = "?" \/ char = "*" THEN wrap(CYAN)
        ELSE [colored_text |-> IF drop /\ char = " " THEN st.colored_text
                               ELSE Append(st.colored_text, char),
              colors_used |-> IF char # " " \/ count
                              THEN Increment(st.colors_used, RESET)
                              ELSE st.colors_used]

ScanChar_drops_space(st, char) == ScanCharWith(st, char, TRUE, FALSE, FALSE)
ScanChar_counts_space(st, char) == ScanCharWith(st, char, FALSE, TRUE, FALSE)
ScanChar_star_cyan(st, char) == ScanCharWith(st, char, FALSE, FALSE, TRUE)

\* Lines 68-86: one turn of the loop over the characters of text.
ScanChar(st, char) ==
    LET wrap(color) ==
            [colored_text |-> st.colored_text \o color \o <<char>> \o RESET,
             colors_used |-> Increment(st.colors_used, color)]
    IN  IF char = "3" THEN wrap(BLUE)
        ELSE IF char = "&" THEN wrap(RED)
        ELSE IF char = "=" THEN wrap(GREEN)
        ELSE IF char = "+" \/ char = "*" THEN wrap(MAGENTA)
        ELSE IF char = "#" \/ char = "?" THEN wrap(CYAN)
        ELSE [colored_text |-> Append(st.colored_text, char),
              colors_used |-> IF char # " "
                              THEN Increment(st.colors_used, RESET)
                              ELSE st.colors_used]

RECURSIVE ScanFrom(_, _, _)
ScanFrom(text, i, st) ==
    IF i > Len(text) THEN st
    ELSE ScanFrom(text, i + 1, ScanChar(st, text[i]))

\* Lines 57-86: colored_text and colors_used when the loop has ended.
Scan(text) ==
    ScanFrom(text, 1, [colored_text |-> <<>>, colors_used |-> NewColorsUsed])

\* Line 100: color + text + ANSIColor.RESET
colored_string(text, color) == color \o text \o RESET

RECURSIVE SumCounts(_, _)
SumCounts(d, i) == IF i > Len(d) THEN 0 ELSE d[i].count + SumCounts(d, i + 1)

\* '█' * n
Blocks(n) == [i \in 1..n |-> BLOCK]

RECURSIVE BarsFrom(_, _, _)
\* Lines 111-112: the loop over the dict, for total > 0.
BarsFrom(d, i, total) ==
    IF i > Len(d) THEN <<>>
    ELSE colored_string(<<LF>> \o Blocks(BarLen(d[i].count, total)), d[i].key)
         \o BarsFrom(d, i + 1, total)

\* Lines 108-112: self.color_stats when build_color_stats ends, and whether
\* it ends by raising: with total = 0 the division of line 112 raises
\* ZeroDivisionError in the first turn of the loop, after line 109 has set
\* self.color_stats.
build_color_stats(d) ==
    LET total == SumCounts(d, 1)
    IN  IF total = 0 /\ Len(d) > 0
        THEN [color_stats |-> Header, raised |-> TRUE]
        ELSE [color_stats |-> Header \o BarsFrom(d, 1, total), raised |-> FALSE]

\* warning with the colour of error.
warning_red(text) == RED \o text \o RESET

\* Line 118
warning(text) == YELLOW \o text \o RESET
\* Line 124
error(text) == RED \o text \o RESET
\* Line 130
info(text) == CYAN \o text \o RESET
\* Line 136
success(text) == GREEN \o text \o RESET

\* Lines 35-41: the state when __init__ has run.
Init ==
    /\ enabled = FALSE
    /\ color_stats = <<>>
    /\ op = "__init__"
    /\ arg_text = <<>>
    /\ arg_color = <<>>
    /\ outcome = "none"
    /\ result = <<>>
    /\ colored_text = <<>>
    /\ colors_used = <<>>

\* Lines 43-45
Enable ==
    /\ enabled' = TRUE
    /\ op' = "enable"
    /\ arg_text' = <<>>
    /\ arg_color' = <<>>
    /\ outcome' = "none"
    /\ result' = <<>>
    /\ colored_text' = <<>>
    /\ UNCHANGED <<color_stats, colors_used>>

\* Lines 47-49
Disable ==
    /\ enabled' = FALSE
    /\ op' = "disable"
    /\ arg_text' = <<>>
    /\ arg_color' = <<>>
    /\ outcome' = "none"
    /\ result' = <<>>
    /\ colored_text' = <<>>
    /\ UNCHANGED <<color_stats, colors_used>>

\* Lines 57-89: the branch taken when self.enabled.
ScanAndBuild(text) ==
    LET scan == Scan(text)
        built == build_color_stats(scan.colors_used)
    IN  /\ colored_text' = scan.colored_text
        /\ colors_used' = scan.colors_used
        /\ color_stats' = built.color_stats
        /\ outcome' = IF built.raised THEN "raised" ELSE "returned"
        /\ result' = IF built.raised THEN <<>> ELSE scan.colored_text

\* The disabled branch colouring all the same.
PassThrough_colours(text) ==
    /\ outcome' = "returned"
    /\ result' = Scan(text).colored_text
    /\ colored_text' = <<>>
    /\ UNCHANGED <<color_stats, colors_used>>

\* Lines 90-91: the branch taken otherwise.
PassThrough(text) ==
    /\ outcome' = "returned"
    /\ result' = text
    /\ colored_text' = <<>>
    /\ UNCHANGED <<color_stats, colors_used>>

\* Lines 51-91
AsciiColorChars(text) ==
    /\ op' = "ascii_color_chars"
    /\ arg_text' = text
    /\ arg_color' = <<>>
    /\ UNCHANGED enabled
    /\ IF enabled THEN ScanAndBuild(text) ELSE PassThrough(text)

\* A call of a method that only builds a str from its arguments.
Returns(text, color, value) ==
    /\ arg_text' = text
    /\ arg_color' = color
    /\ outcome' = "returned"
    /\ result' = value
    /\ colored_text' = <<>>
    /\ UNCHANGED <<enabled, color_stats, colors_used>>

\* Lines 93-100
ColoredString(text, color) ==
    /\ op' = "colored_string"
    /\ Returns(text, color, colored_string(text, color))

\* Lines 114-118
Warning(text) ==
    /\ op' = "warning"
    /\ Returns(text, <<>>, warning(text))

\* Lines 120-124
Error(text) ==
    /\ op' = "error"
    /\ Returns(text, <<>>, error(text))

\* Lines 126-130
Info(text) ==
    /\ op' = "info"
    /\ Returns(text, <<>>, info(text))

\* Lines 132-136
Success(text) ==
    /\ op' = "success"
    /\ Returns(text, <<>>, success(text))

Next ==
    \/ Enable
    \/ Disable
    \/ \E text \in Texts : AsciiColorChars(text)
    \/ \E text \in WrapTexts, color \in ANSIColors : ColoredString(text, color)
    \/ \E text \in WrapTexts : Warning(text)
    \/ \E text \in WrapTexts : Error(text)
    \/ \E text \in WrapTexts : Info(text)
    \/ \E text \in WrapTexts : Success(text)

Spec == Init /\ [][Next]_vars

(***************************************************************************)
(* build_color_stats alone, on histograms that no short text produces: the *)
(* dict of lines 58-65 with at most two colours counted.                   *)
(***************************************************************************)
Hists ==
    { [k \in 1..Len(NewColorsUsed) |->
          [key |-> NewColorsUsed[k].key,
           count |-> IF k = a THEN i ELSE IF k = b THEN j ELSE 0]] :
      a \in 1..Len(NewColorsUsed), b \in 1..Len(NewColorsUsed),
      i \in 0..MaxCount, j \in 0..MaxCount }

InitStats ==
    /\ enabled = TRUE
    /\ color_stats = <<>>
    /\ op = "__init__"
    /\ arg_text = <<>>
    /\ arg_color = <<>>
    /\ outcome = "none"
    /\ result = <<>>
    /\ colored_text = <<>>
    /\ colors_used \in Hists

\* Lines 102-112, called with the dict colors_used.
BuildColorStats ==
    /\ op = "__init__"
    /\ op' = "build_color_stats"
    /\ color_stats' = build_color_stats(colors_used).color_stats
    /\ outcome' = IF build_color_stats(colors_used).raised THEN "raised" ELSE "none"
    /\ UNCHANGED <<enabled, arg_text, arg_color, result, colored_text, colors_used>>

NextStats == BuildColorStats

SpecStats == InitStats /\ [][NextStats]_vars

(***************************************************************************)
(* The claims.                                                             *)
(***************************************************************************)
WrapOps == {"colored_string", "warning", "error", "info", "success"}

\* C1: every call of colored_string returns its color argument, then its
\* text, then ESC[0m; warning, error, info and success return ESC[33m,
\* ESC[31m, ESC[36m and ESC[32m, then the text, then ESC[0m; and none of the
\* five changes enabled or color_stats, whatever enabled is.
C1_WrapShape ==
    [][ /\ op' = "colored_string" =>
              result' = arg_color' \o arg_text' \o <<ESC, "[", "0", "m">>
        /\ op' = "warning" =>
              result' = <<ESC, "[", "3", "3", "m">> \o arg_text' \o <<ESC, "[", "0", "m">>
        /\ op' = "error" =>
              result' = <<ESC, "[", "3", "1", "m">> \o arg_text' \o <<ESC, "[", "0", "m">>
        /\ op' = "info" =>
              result' = <<ESC, "[", "3", "6", "m">> \o arg_text' \o <<ESC, "[", "0", "m">>
        /\ op' = "success" =>
              result' = <<ESC, "[", "3", "2", "m">> \o arg_text' \o <<ESC, "[", "0", "m">>
        /\ op' \in WrapOps =>
              /\ outcome' = "returned"
              /\ enabled' = enabled
              /\ color_stats' = color_stats ]_vars

\* warning("bad") called while enabled, with a report in color_stats.
C1_Witness ==
    /\ op = "warning"
    /\ enabled
    /\ arg_text = <<"b", "a", "d">>
    /\ result = <<ESC, "[", "3", "3", "m", "b", "a", "d", ESC, "[", "0", "m">>
    /\ Len(color_stats) > Len(Header)

\* C2: a call of ascii_color_chars made while enabled is False returns its
\* text and leaves enabled and color_stats as they were.
C2_DisabledIdentity ==
    [][ (op' = "ascii_color_chars" /\ ~enabled) =>
            /\ outcome' = "returned"
            /\ result' = arg_text'
            /\ enabled' = enabled
            /\ color_stats' = color_stats ]_vars

\* A text of classified characters scanned after a disable that followed
\* an enabled scan: the report of that scan is still there.
C2_Witness ==
    /\ op = "ascii_color_chars"
    /\ ~enabled
    /\ arg_text = <<"3", "&", "=", "+", "*", "#", "?">>
    /\ result = arg_text
    /\ Len(color_stats) > Len(Header)

\* The calls of ascii_color_chars made while enabled.
EnabledScan == op = "ascii_color_chars" /\ enabled

\* Whether sub stands in s at position i.
StartsAt(s, i, sub) ==
    i + Len(sub) - 1 <= Len(s) /\ SubSeq(s, i, i + Len(sub) - 1) = sub

RECURSIVE StripFrom(_, _)
\* s[i..] without the seven codes of ANSIColor, found left to right.
StripFrom(s, i) ==
    IF i > Len(s) THEN <<>>
    ELSE IF \E code \in ANSIColors : StartsAt(s, i, code)
         THEN LET code == CHOOSE c \in ANSIColors : StartsAt(s, i, c)
              IN  StripFrom(s, i + Len(code))
         ELSE <<s[i]>> \o StripFrom(s, i + 1)

Strip(s) == StripFrom(s, 1)

Contains(s, sub) == \E i \in 1..Len(s) : StartsAt(s, i, sub)

\* C3 as claimed: the string an enabled scan returns, with the colour and
\* reset codes removed, is the text scanned.
C3_RoundTrip ==
    (EnabledScan /\ outcome = "returned") => Strip(result) = arg_text

\* C3 amended: for a text that does not hold ESC[0m, the string an enabled
\* scan has built when its loop ends, with the colour and reset codes
\* removed, is the text; and that string is what the call returns when it
\* returns.
C3_RoundTripNoReset ==
    EnabledScan =>
        /\ ~Contains(arg_text, RESET) => Strip(colored_text) = arg_text
        /\ outcome = "returned" => result = colored_text

\* A text that is itself a colour code: its '3' is coloured, and it comes
\* back.
C3_Witness ==
    /\ EnabledScan
    /\ outcome = "returned"
    /\ arg_text = RED
    /\ Len(result) > Len(arg_text)
    /\ Strip(result) = arg_text

NoNonSpace(text) == \A i \in 1..Len(text) : text[i] = " "

\* C4: an enabled scan of a text without a non-space character returns the
\* text and leaves a whole report (more than the header) in color_stats.
C4_ZeroTotalReturns ==
    (EnabledScan /\ NoNonSpace(arg_text)) =>
        /\ outcome = "returned"
        /\ result = arg_text
        /\ Len(color_stats) > Len(Header)

CountIn(text, S) == Cardinality({i \in 1..Len(text) : text[i] \in S})

\* C5: the dict an enabled scan hands to build_color_stats holds natural
\* numbers that add up to the length of the text less its spaces.
C5_HistogramSum ==
    EnabledScan =>
        /\ \A i \in 1..Len(colors_used) : colors_used[i].count \in Nat
        /\ SumCounts(colors_used, 1) = Len(arg_text) - CountIn(arg_text, {" "})

\* A text of six characters, two of them spaces.
C5_Witness ==
    /\ EnabledScan
    /\ arg_text = <<"a", " ", "3", " ", "3", "&">>
    /\ SumCounts(colors_used, 1) = 4

Keys(d) == {d[i].key : i \in 1..Len(d)}

\* C6 as claimed: the keys of that dict are the seven colours of ANSIColor
\* (looked at after the scans that return).
C6_KeysAllColors ==
    (EnabledScan /\ outcome = "returned") => Keys(colors_used) = ANSIColors

\* C6 amended: the keys of that dict are the six colours other than YELLOW,
\* each once.
C6_KeysButYellow ==
    EnabledScan =>
        /\ Keys(colors_used) = ANSIColors \ {YELLOW}
        /\ Len(colors_used) = 6

\* A scan that counts under one key only: the other five are there with 0.
C6_Witness ==
    /\ EnabledScan
    /\ arg_text = <<"a", "b">>
    /\ Cardinality({i \in 1..Len(colors_used) : colors_used[i].count = 0}) = 5

\* What the loop adds to colored_text for one character.
Piece(c) ==
    CASE c = "3" -> <<ESC, "[", "3", "4", "m", c, ESC, "[", "0", "m">>
      [] c = "&" -> <<ESC, "[", "3", "1", "m", c, ESC, "[", "0", "m">>
      [] c = "=" -> <<ESC, "[", "3", "2", "m", c, ESC, "[", "0", "m">>
      [] c \in {"+", "*"} -> <<ESC, "[", "3", "5", "m", c, ESC, "[", "0", "m">>
      [] c \in {"#", "?"} -> <<ESC, "[", "3", "6", "m", c, ESC, "[", "0", "m">>
      [] OTHER -> <<c>>

RECURSIVE Pieces(_, _)
Pieces(text, i) ==
    IF i > Len(text) THEN <<>> ELSE Piece(text[i]) \o Pieces(text, i + 1)

\* The characters of text counted under `key`.
Bucket(text, key) ==
    CASE key = <<ESC, "[", "3", "4", "m">> -> CountIn(text, {"3"})
      [] key = <<ESC, "[", "3", "1", "m">> -> CountIn(text, {"&"})
      [] key = <<ESC, "[", "3", "2", "m">> -> CountIn(text, {"="})
      [] key = <<ESC, "[", "3", "5", "m">> -> CountIn(text, {"+", "*"})
      [] key = <<ESC, "[", "3", "6", "m">> -> CountIn(text, {"#", "?"})
      [] key = <<ESC, "[", "0", "m">> ->
             Len(text) - CountIn(text, {"3", "&", "=", "+", "*", "#", "?", " "})
      [] OTHER -> 0

RECURSIVE ExactBarsFrom(_, _, _)
\* For every entry of d from the i-th on: its key, a line break,
\* floor(count * 50 / total) blocks and ESC[0m.
ExactBarsFrom(d, i, total) ==
    IF i > Len(d) THEN <<>>
    ELSE d[i].key \o <<LF>> \o [n \in 1..((d[i].count * 50) \div total) |-> BLOCK]
         \o <<ESC, "[", "0", "m">> \o ExactBarsFrom(d, i + 1, total)

\* C8: for a dict with total > 0, build_color_stats leaves in color_stats,
\* after the header, one bar per key of exactly floor(count * 50 / total)
\* blocks, after a line break and between the key and ESC[0m.
C8_BarFloor ==
    (op = "build_color_stats" /\ SumCounts(colors_used, 1) > 0) =>
        color_stats = Header \o ExactBarsFrom(colors_used, 1, SumCounts(colors_used, 1))

\* The end of the run of blocks that starts at s[j].
BlocksEnd(s, j) ==
    CHOOSE k \in j..(Len(s) + 1) :
        /\ \A n \in j..(k - 1) : s[n] = BLOCK
        /\ k = Len(s) + 1 \/ s[k] # BLOCK

RECURSIVE BarKeysFrom(_, _)
\* The codes that open the bars of s[i..], in order, when s[i..] is a row of
\* bars (a code, a line break, blocks, ESC[0m); "malformed" where it is not.
BarKeysFrom(s, i) ==
    IF i > Len(s) THEN <<>>
    ELSE IF \E code \in ANSIColors : StartsAt(s, i, code \o <<LF>>)
         THEN LET code == CHOOSE c \in ANSIColors : StartsAt(s, i, c \o <<LF>>)
                  k == BlocksEnd(s, i + Len(code) + 1)
              IN  IF StartsAt(s, k, <<ESC, "[", "0", "m">>)
                  THEN <<code>> \o BarKeysFrom(s, k + 4)
                  ELSE <<"malformed">>
         ELSE <<"malformed">>

BarKeys == BarKeysFrom(color_stats, Len(Header) + 1)

\* C9 as claimed: a report with bars starts with the header and lists the
\* bars in the order Red, Green, Yellow, Blue, Magenta, Cyan, Reset.
C9_EnumOrder ==
    Len(color_stats) > Len(Header) =>
        /\ StartsAt(color_stats, 1, Header)
        /\ BarKeys = <<RED, GREEN, YELLOW, BLUE, MAGENTA, CYAN, RESET>>

\* C9 amended: color_stats, once set, starts with the header, and the bars
\* after it are those of Blue, Red, Green, Magenta, Cyan and Reset, in that
\* order (none after a scan whose total is 0, which stops at the header).
C9_DictOrder ==
    color_stats # <<>> =>
        /\ StartsAt(color_stats, 1, Header)
        /\ BarKeys = IF SumCounts(colors_used, 1) = 0 THEN <<>>
                     ELSE <<BLUE, RED, GREEN, MAGENTA, CYAN, RESET>>

\* The report of a scan that counts under five keys.
C9_Witness ==
    /\ EnabledScan
    /\ arg_text = <<"3", "&", "=", "+", "*", "#", "?">>
    /\ Len(BarKeys) = 6
    /\ Len(color_stats) = 165

\* The dict of a scan of text alone.
FreshHistogram(text) ==
    << [key |-> BLUE, count |-> Bucket(text, BLUE)],
       [key |-> RED, count |-> Bucket(text, RED)],
       [key |-> GREEN, count |-> Bucket(text, GREEN)],
       [key |-> MAGENTA, count |-> Bucket(text, MAGENTA)],
       [key |-> CYAN, count |-> Bucket(text, CYAN)],
       [key |-> RESET, count |-> Bucket(text, RESET)] >>

\* C10: color_stats is empty at first; an enabled scan sets it to the report
\* (header and six bars) of the histogram of its own text alone; no other
\* call changes it.
C10_LastScanOnly ==
    [][ /\ op = "__init__" => color_stats = <<>>
        /\ IF op' = "ascii_color_chars" /\ enabled
           THEN LET d == FreshHistogram(arg_text')
                    total == SumCounts(d, 1)
                IN  /\ total > 0
                    /\ color_stats' = Header \o BarsFrom(d, 1, total)
           ELSE color_stats' = color_stats ]_vars

=============================================================================
